---- MODULE Spec2Model ----
(***************************************************************************)
(* Model of sp500_animation.py: the memoised history loader                *)
(* (load_sp500_history), the axis set-up (_format_axes), the animator      *)
(* (animate_prices with its init/update callbacks driven by                *)
(* FuncAnimation) and the entry point (main).                              *)
(*                                                                         *)
(* Prices are exact binary fractions counted in eighths (720 = 90.0,       *)
(* 801 = 100.125), so that "%.2f" rounding is exact; axis limits are       *)
(* counted in 1/160 (an eighth of a twentieth), so that 5% is exact.       *)
(***************************************************************************)
EXTENDS Integers, Sequences, FiniteSets

\* ------------------------------------------------------------------ bounds
MaxRows == 3
MaxCalls == 3

\* ------------------------------------------------------------ input domain
None == [none |-> TRUE]

\* Index values of the provider's table: timestamps (year, month, day, hour).
Timestamps ==
    { [year |-> 2020, month |-> 1, day |-> 2, hour |-> 0],
      [year |-> 1999, month |-> 12, day |-> 31, hour |-> 5] }

\* Closing prices in eighths: 90.0, 110.0, 105.5, 100.125.
Closes == {720, 880, 844, 801}

\* A row of the provider's table: the index (Date) and the columns.
Rows == [Date : Timestamps, Open : {0}, Close : Closes, Volume : {7}]

\* A row of a table that has no Close column.
RowsNoClose == [Date : Timestamps, Open : {0}, Volume : {7}]

SeqsUpTo(S, n) == UNION { [1..k -> S] : k \in 0..n }

\* What Ticker.history can return: the column names and the rows.
Tables ==
    [columns : {{"Open", "Close", "Volume"}}, rows : SeqsUpTo(Rows, MaxRows)]
        \cup [columns : {{"Open", "Volume"}}, rows : SeqsUpTo(RowsNoClose, MaxRows)]

\* ------------------------------------------------------ load_sp500_history
\* Mutant: the history.empty test left out.
LoadRejectsCloseOnly(history) == "Close" \notin history.columns

\* history.empty or "Close" not in history
LoadRejects(history) == Len(history.rows) = 0 \/ "Close" \notin history.columns

\* pd.to_datetime on a timestamp: the same instant, as a datetime64 value.
to_datetime(ts) ==
    [year |-> ts.year, month |-> ts.month, day |-> ts.day, hour |-> ts.hour]

\* Mutant: the rows come out newest first.
ProjectReversed(history) ==
    [k \in 1..Len(history.rows) |->
        [Date |-> history.rows[Len(history.rows) + 1 - k].Date,
         Close |-> history.rows[Len(history.rows) + 1 - k].Close]]

\* history.reset_index()[["Date", "Close"]] with Date converted
Project(history) ==
    [k \in 1..Len(history.rows) |->
        [Date |-> to_datetime(history.rows[k].Date),
         Close |-> history.rows[k].Close]]

\* Mutant: nothing is kept (maxsize=0).
CacheStoreNothing(v) == None

\* What lru_cache(maxsize=1) keeps of a returned value.
CacheStore(v) == v

VARIABLES
    pc,         \* "idle", "show" (inside plt.show()), "exited"
    mode,       \* "none", "main" (run as a script), "client" and "standalone"
                \* (imported: the loader, or animate_prices, called directly)
    exitStatus, \* -1 while running, else the process status
    cache,      \* lru_cache slot: None or [id, points]
    calls,      \* calls of load_sp500_history so far
    fetchCount, \* calls of Ticker.history so far
    failures,   \* calls that raised
    firstOk,    \* the first value a call returned, or None
    lastCall,   \* None or [fetched, history, ok, value] of the latest call
    data,       \* the argument of animate_prices, or None
    dates, closes,          \* the lists of lines 51-52
    line, marker, label,    \* the artists' data
    xlim, ylim,             \* axis limits, None when never set
    anim,       \* "none", "armed", "running", "done", "collected"
    frame,      \* the next index of the frame sequence
    rendered,   \* the observable states so far: -1 for init, i for update(i)
    window      \* the figure window is open

loaderVars == <<cache, calls, fetchCount, failures, firstOk, lastCall>>
animVars == <<data, dates, closes, line, marker, label, xlim, ylim, anim, frame,
              rendered, window>>
vars == <<pc, mode, exitStatus, loaderVars, animVars>>

Init ==
    /\ pc = "idle" /\ mode = "none" /\ exitStatus = -1
    /\ cache = None /\ calls = 0 /\ fetchCount = 0 /\ failures = 0
    /\ firstOk = None /\ lastCall = None
    /\ data = None /\ dates = <<>> /\ closes = <<>>
    /\ line = <<>> /\ marker = <<>> /\ label = <<>>
    /\ xlim = None /\ ylim = None
    /\ anim = "none" /\ frame = 0 /\ rendered = <<>> /\ window = FALSE

\* One call of the memoised loader; history is what the provider answers if asked.
\* A hit returns the cached object; a miss runs the body, and only a returned
\* value is stored (an exception leaves the cache as it was).
load_sp500_history(history) ==
    /\ calls' = calls + 1
    /\ IF cache # None
       THEN /\ lastCall' = [fetched |-> FALSE, history |-> None, ok |-> TRUE,
                            value |-> cache]
            /\ UNCHANGED <<cache, fetchCount, failures>>
       ELSE /\ fetchCount' = fetchCount + 1
            /\ IF LoadRejects(history)
               THEN /\ lastCall' = [fetched |-> TRUE, history |-> history,
                                    ok |-> FALSE, value |-> None]
                    /\ failures' = failures + 1
                    /\ UNCHANGED cache
               ELSE LET v == [id |-> fetchCount + 1, points |-> Project(history)]
                    IN /\ lastCall' = [fetched |-> TRUE, history |-> history,
                                       ok |-> TRUE, value |-> v]
                       /\ cache' = CacheStore(v)
                       /\ UNCHANGED failures
    /\ firstOk' = IF firstOk = None /\ lastCall'.ok THEN lastCall'.value ELSE firstOk

\* The provider's answers to choose from: it is asked only on a cache miss.
ProviderAnswers == IF cache # None THEN {None} ELSE Tables

\* A caller other than main (the module imported) calls the loader.
ClientLoad ==
    /\ pc = "idle" /\ mode \in {"none", "client"} /\ calls < MaxCalls
    /\ \E history \in ProviderAnswers : load_sp500_history(history)
    /\ mode' = "client"
    /\ UNCHANGED <<pc, exitStatus, animVars>>

\* ------------------------------------------------------------ text helpers
DigitChar(n) == <<"0", "1", "2", "3", "4", "5", "6", "7", "8", "9">>[n + 1]

\* str.format's decimal digits of a natural number, no padding.
RECURSIVE Dec(_)
Dec(n) == IF n < 10 THEN <<DigitChar(n)>> ELSE Dec(n \div 10) \o <<DigitChar(n % 10)>>

\* Zero-padding on the left to width w (%04d, %02d).
RECURSIVE Pad(_, _)
Pad(txt, w) == IF Len(txt) >= w THEN txt ELSE Pad(<<"0">> \o txt, w)

\* Series.dt.to_pydatetime(): the same fields as a datetime.datetime.
to_pydatetime(ts) ==
    [year |-> ts.year, month |-> ts.month, day |-> ts.day, hour |-> ts.hour]

\* datetime.date(): the calendar date, the time of day dropped.
DateOf(dt) == [year |-> dt.year, month |-> dt.month, day |-> dt.day]

\* date.isoformat(): YYYY-MM-DD
isoformat(d) ==
    Pad(Dec(d.year), 4) \o <<"-">> \o Pad(Dec(d.month), 2) \o <<"-">>
        \o Pad(Dec(d.day), 2)

\* f"{x:.2f}" of a price of c eighths: c/8 = c*25/2 hundredths, which is either
\* exact or a tie; a tie of an exactly representable value rounds half to even.
Format2f(c) ==
    LET twice == c * 25
        q == twice \div 2
        cents == IF twice % 2 = 0 THEN q ELSE IF q % 2 = 0 THEN q ELSE q + 1
    IN Dec(cents \div 100) \o <<".">> \o Pad(Dec(cents % 100), 2)

\* f"{current_dates[-1].date().isoformat()}: {current_prices[-1]:.2f}"
LabelText(dt, c) == isoformat(DateOf(dt)) \o <<":", " ">> \o Format2f(c)

\* ------------------------------------------------------------ _format_axes
\* Timestamps compare chronologically.
TsKey(ts) == ((ts.year * 100 + ts.month) * 100 + ts.day) * 100 + ts.hour

\* min(dates) / max(dates): a left fold that keeps the first extreme element.
RECURSIVE MinDate(_)
MinDate(s) ==
    IF Len(s) = 1 THEN s[1]
    ELSE LET m == MinDate(SubSeq(s, 1, Len(s) - 1))
         IN IF TsKey(s[Len(s)]) < TsKey(m) THEN s[Len(s)] ELSE m

RECURSIVE MaxDate(_)
MaxDate(s) ==
    IF Len(s) = 1 THEN s[1]
    ELSE LET m == MaxDate(SubSeq(s, 1, Len(s) - 1))
         IN IF TsKey(s[Len(s)]) > TsKey(m) THEN s[Len(s)] ELSE m

RECURSIVE MinPrice(_)
MinPrice(s) ==
    IF Len(s) = 1 THEN s[1]
    ELSE LET m == MinPrice(SubSeq(s, 1, Len(s) - 1))
         IN IF s[Len(s)] < m THEN s[Len(s)] ELSE m

RECURSIVE MaxPrice(_)
MaxPrice(s) ==
    IF Len(s) = 1 THEN s[1]
    ELSE LET m == MaxPrice(SubSeq(s, 1, Len(s) - 1))
         IN IF s[Len(s)] > m THEN s[Len(s)] ELSE m

\* The fallback padding of line 46, in price units.
FallbackPadding == 10

\* Mutant: no fallback for a zero padding.
PaddingNoFallback(r) == r

\* padding = (price_max - price_min) * 0.05 or 10, in 1/160 of a price unit:
\* a range of r eighths is r/8, and 5% of it is r/160.
Padding(r) == IF r # 0 THEN r ELSE FallbackPadding * (8 * 20)

\* ax.set_ylim(price_min - padding, price_max + padding), in 1/160.
YLimits(prices) ==
    LET price_min == MinPrice(prices)
        price_max == MaxPrice(prices)
        padding == Padding(price_max - price_min)
    IN [lo |-> 20 * price_min - padding, hi |-> 20 * price_max + padding]

\* if dates:
DatesGuard(ds) == ds # <<>>

\* Mutant: the price limits computed unconditionally.
PricesGuardMissing(prices) == TRUE

\* if prices:
PricesGuard(prices) == prices # <<>>

\* min() and max() of an empty list raise ValueError: _format_axes raises when a
\* guarded block is entered with an empty list.
AxesRaise(ds, prices) ==
    \/ DatesGuard(ds) /\ ds = <<>>
    \/ PricesGuard(prices) /\ prices = <<>>

\* The limits _format_axes sets: each only when its guard lets it.
format_axes(ds, prices) ==
    /\ xlim' = IF DatesGuard(ds) THEN [lo |-> MinDate(ds), hi |-> MaxDate(ds)] ELSE xlim
    /\ ylim' = IF PricesGuard(prices) THEN YLimits(prices) ELSE ylim

\* ---------------------------------------------------------- animate_prices
\* s[:n]
Take(s, n) == SubSeq(s, 1, IF n < Len(s) THEN n ELSE Len(s))

\* The points an artist holds: the x and y lists, zipped.
Zip(ds, cs) == [k \in 1..Len(ds) |-> [Date |-> ds[k], Close |-> cs[k]]]

\* init(): line, marker and label emptied.
init ==
    /\ line' = <<>>
    /\ marker' = <<>>
    /\ label' = <<>>

\* Mutant: dates[:frame]
CurrentSliceShort(s, i) == Take(s, i)

\* dates[: frame + 1]
CurrentSlice(s, i) == Take(s, i + 1)

\* update(frame)
update(i) ==
    LET current_dates == CurrentSlice(dates, i)
        current_prices == CurrentSlice(closes, i)
    IN /\ line' = Zip(current_dates, current_prices)
       /\ IF current_dates # <<>>
          THEN /\ marker' = <<[Date |-> current_dates[Len(current_dates)],
                               Close |-> current_prices[Len(current_prices)]]>>
               /\ label' = LabelText(current_dates[Len(current_dates)],
                                     current_prices[Len(current_prices)])
          ELSE UNCHANGED <<marker, label>>

\* FuncAnimation(..., frames=len(dates), ...)
Frames == Len(dates)

\* FuncAnimation(..., repeat=False)
Repeat == FALSE

\* animate_prices(data) up to the event loop of plt.show(): the lists, the empty
\* artists, the axes, and the FuncAnimation object, created and bound to no name.
\* An exception raised inside _format_axes propagates out of animate_prices.
animate_prices(d) ==
    /\ data' = d
    /\ dates' = [k \in 1..Len(d.points) |-> to_pydatetime(d.points[k].Date)]
    /\ closes' = [k \in 1..Len(d.points) |-> d.points[k].Close]
    /\ line' = <<>> /\ marker' = <<>> /\ label' = <<>>
    /\ frame' = 0 /\ rendered' = <<>>
    /\ IF AxesRaise(dates', closes')
       THEN /\ pc' = "exited" /\ exitStatus' = 1
            /\ UNCHANGED <<xlim, ylim, anim, window>>
       ELSE /\ format_axes(dates', closes')
            /\ anim' = "armed"
            /\ window' = TRUE
            /\ pc' = "show"
            /\ UNCHANGED exitStatus

\* The first draw of the figure: FuncAnimation calls init_func and starts its timer.
InitDraw ==
    /\ pc = "show" /\ window /\ anim = "armed"
    /\ init
    /\ rendered' = Append(rendered, -1)
    /\ anim' = "running"
    /\ UNCHANGED <<pc, mode, exitStatus, loaderVars, data, dates, closes, xlim,
                   ylim, frame, window>>

\* What the timer does when the frame sequence is exhausted.
Exhausted ==
    IF Repeat
    THEN /\ init
         /\ rendered' = Append(rendered, -1)
         /\ frame' = 0
         /\ UNCHANGED anim
    ELSE /\ anim' = "done"
         /\ UNCHANGED <<line, marker, label, rendered, frame>>

\* One timer tick: the next frame of range(frames), or the end of the sequence.
Step ==
    /\ pc = "show" /\ window /\ anim = "running"
    /\ IF frame < Frames
       THEN /\ update(frame)
            /\ rendered' = Append(rendered, frame)
            /\ frame' = frame + 1
            /\ UNCHANGED anim
       ELSE Exhausted
    /\ UNCHANGED <<pc, mode, exitStatus, loaderVars, data, dates, closes, xlim,
                   ylim, window>>

\* The FuncAnimation object of lines 79-87 is bound to no name and the canvas
\* holds its callbacks weakly: the collector may reclaim it at any moment, and
\* its timer with it.
Collect ==
    /\ pc = "show" /\ anim \in {"armed", "running"}
    /\ anim' = "collected"
    /\ UNCHANGED <<pc, mode, exitStatus, loaderVars, data, dates, closes, line,
                   marker, label, xlim, ylim, frame, rendered, window>>

\* The user closes the window: plt.show() returns, and so does animate_prices.
CloseWindow ==
    /\ pc = "show" /\ window
    /\ window' = FALSE
    /\ pc' = "exited"
    /\ exitStatus' = 0
    /\ UNCHANGED <<mode, loaderVars, data, dates, closes, line, marker, label,
                   xlim, ylim, anim, frame, rendered>>

\* The points a caller can hand to animate_prices directly.
Points == [Date : Timestamps, Close : Closes]

\* animate_prices called by a caller other than main, with any frame of points.
ClientAnimate ==
    /\ pc = "idle" /\ mode = "none"
    /\ \E s \in SeqsUpTo(Points, MaxRows) : animate_prices([id |-> 0, points |-> s])
    /\ mode' = "standalone"
    /\ UNCHANGED loaderVars

\* ------------------------------------------------------------------- main
\* Mutant: the error swallowed, the process ending normally.
MainSwallows ==
    /\ pc' = "exited"
    /\ exitStatus' = 0
    /\ UNCHANGED animVars

\* The loader raised and main catches nothing: the interpreter prints the
\* traceback and exits with status 1.
MainRaises ==
    /\ pc' = "exited"
    /\ exitStatus' = 1
    /\ UNCHANGED animVars

\* main(): data = load_sp500_history(); animate_prices(data), in the fresh
\* process of lines 98-99.
main ==
    /\ pc = "idle" /\ mode = "none"
    /\ mode' = "main"
    /\ \E history \in ProviderAnswers :
        /\ load_sp500_history(history)
        /\ IF lastCall'.ok
           THEN animate_prices(lastCall'.value)
           ELSE MainRaises

Next ==
    \/ ClientLoad
    \/ ClientAnimate
    \/ main
    \/ InitDraw
    \/ Step
    \/ Collect
    \/ CloseWindow

\* The toolkit's event loop runs the first draw and every timer tick.
Fairness == WF_vars(InitDraw) /\ WF_vars(Step)


Spec == Init /\ [][Next]_vars

FairSpec == Spec /\ Fairness

\* ------------------------------------------------------------- properties
Last(s) == s[Len(s)]

\* init, update(0), ..., update(n-1)
ExpectedStates(n) == [k \in 1..(n + 1) |-> k - 2]

\* The animation is at rest with the window still open: no frame will follow.
AtRest == pc = "show" /\ window /\ anim \in {"done", "collected"}

\* C1: for a series of length N >= 1, the animation produces exactly N+1
\* observable states: init, then update(0), ..., update(N-1) in increasing order,
\* none skipped and none repeated. Stated of the animation once it has come to
\* rest in an open window.
C1_ExactlyNPlusOneStates ==
    (AtRest /\ Frames >= 1) => rendered = ExpectedStates(Frames)

\* What is rendered is always a prefix of init, update(0), ..., update(N-1).
C1_InOrderPrefix ==
    /\ Len(rendered) <= Frames + 1
    /\ \A k \in 1..Len(rendered) : rendered[k] = k - 2

\* The text Python prints for each date and each price of the input domain.
IsoText(ts) ==
    IF ts.year = 2020
    THEN <<"2", "0", "2", "0", "-", "0", "1", "-", "0", "2">>
    ELSE <<"1", "9", "9", "9", "-", "1", "2", "-", "3", "1">>

TwoDecimals(c) ==
    CASE c = 720 -> <<"9", "0", ".", "0", "0">>
      [] c = 880 -> <<"1", "1", "0", ".", "0", "0">>
      [] c = 844 -> <<"1", "0", "5", ".", "5", "0">>
      [] c = 801 -> <<"1", "0", "0", ".", "1", "2">>

\* C2: in reveal frame i the line holds exactly the points 0..i in series order,
\* the marker is at point i and the label reads "<ISO date of point i>: <close
\* of point i to 2 decimals>"; in the initial state line, marker and label are
\* empty.
C2_FrameContents ==
    (pc # "idle" /\ data # None) =>
        IF rendered = <<>> \/ Last(rendered) = -1
        THEN line = <<>> /\ marker = <<>> /\ label = <<>>
        ELSE LET i == Last(rendered)
             IN /\ Len(line) = i + 1
                /\ \A k \in 1..(i + 1) : line[k] = data.points[k]
                /\ marker = <<data.points[i + 1]>>
                /\ label = IsoText(data.points[i + 1].Date) \o <<":", " ">>
                               \o TwoDecimals(data.points[i + 1].Close)

\* Frame 1 of a series whose second point is (2020-01-02, 105.5).
C2_Witness ==
    /\ rendered = <<-1, 0, 1>>
    /\ Len(line) = 2
    /\ label = <<"2", "0", "2", "0", "-", "0", "1", "-", "0", "2", ":", " ",
                 "1", "0", "5", ".", "5", "0">>

\* C3: the animation eventually reaches Done after frame N-1 (unless the user
\* closes the window first) and then stays there: no frame with index >= N is
\* rendered, and it neither loops back to frame 0 nor resets to the initial state.
C3_ReachesDoneAndStays ==
    /\ [](pc = "show" => <>(anim = "done" \/ ~window))
    /\ [][anim = "done" => anim' = "done" /\ rendered' = rendered]_vars
    /\ [](\A k \in 1..Len(rendered) : rendered[k] < Frames)

\* C4: once a call of load_sp500_history has returned, every later call returns
\* that same object and asks the provider nothing.
C4_LaterCallsHitCache ==
    [][(firstOk # None /\ calls' = calls + 1) =>
          /\ lastCall'.ok
          /\ lastCall'.value = firstOk
          /\ ~lastCall'.fetched
          /\ fetchCount' = fetchCount]_vars

\* Two calls served from the cache after the one that fetched.
C4_Witness ==
    /\ calls = 3 /\ fetchCount = 1 /\ failures = 0
    /\ lastCall # None /\ ~lastCall.fetched /\ lastCall.value = firstOk

C6_RejectsEmptyOrCloseless ==
    /\ lastCall # None =>
          /\ (lastCall.fetched /\ (Len(lastCall.history.rows) = 0
                                     \/ "Close" \notin lastCall.history.columns))
                => (~lastCall.ok /\ lastCall.value = None)
          /\ lastCall.ok => Len(lastCall.value.points) >= 1
    /\ cache # None => Len(cache.points) >= 1

\* A call that was answered with rows but no Close column.
C6_Witness ==
    /\ lastCall # None /\ lastCall.fetched /\ ~lastCall.ok
    /\ Len(lastCall.history.rows) >= 1
    /\ "Close" \notin lastCall.history.columns
    /\ cache = None

\* C7: run as a script, the animator starts only after the loader has returned
\* and gets exactly the series it returned; if the loader fails, animate_prices
\* is never called, nothing is rendered and the status is non-zero; normal
\* completion gives status 0.
C7_MainFlow ==
    mode = "main" =>
        /\ lastCall # None
        /\ ~lastCall.ok =>
              /\ pc = "exited" /\ exitStatus # 0 /\ exitStatus # -1
              /\ data = None /\ anim = "none" /\ rendered = <<>> /\ ~window
        /\ lastCall.ok =>
              /\ data = lastCall.value
              /\ pc = "show" => exitStatus = -1
              /\ pc = "exited" => exitStatus = 0

\* main ended by the loader's error.
C7_Witness ==
    /\ mode = "main" /\ pc = "exited" /\ exitStatus = 1
    /\ ~lastCall.ok /\ data = None

\* The least and the greatest element of a non-empty list of prices.
Least(s) == CHOOSE m \in {s[k] : k \in 1..Len(s)} : \A k \in 1..Len(s) : m <= s[k]
Greatest(s) == CHOOSE m \in {s[k] : k \in 1..Len(s)} : \A k \in 1..Len(s) : m >= s[k]

\* C8: for a non-empty list of closes the y-limits are [min - padding,
\* max + padding], padding being 5% of (max - min) when that is non-zero and 10
\* otherwise; closes [90, 110] give [89, 111]; the lower limit is below the upper.
\* (Closes in eighths, limits in 1/160: 5% of r eighths is r/160.)
C8_YLimits ==
    (pc # "idle" /\ closes # <<>>) =>
        LET lo == Least(closes)
            hi == Greatest(closes)
            padding == IF hi - lo # 0 THEN hi - lo ELSE 10 * 160
        IN /\ ylim # None
           /\ ylim.lo = 20 * lo - padding
           /\ ylim.hi = 20 * hi + padding
           /\ ylim.lo < ylim.hi
           /\ closes = <<720, 880>> => ylim = [lo |-> 89 * 160, hi |-> 111 * 160]

\* The closes [90, 110] with the limits [89, 111].
C8_Witness ==
    /\ closes = <<720, 880>>
    /\ ylim = [lo |-> 14240, hi |-> 17760]

\* C9: for a non-empty fetched table the returned series has as many entries as
\* the table has rows, the k-th entry holding the date and the close of the k-th
\* row and nothing else.
C9_Projection ==
    (lastCall # None /\ lastCall.fetched /\ lastCall.ok) =>
        LET rows == lastCall.history.rows
            points == lastCall.value.points
        IN /\ Len(points) = Len(rows)
           /\ \A k \in 1..Len(rows) :
                 /\ DOMAIN points[k] = {"Date", "Close"}
                 /\ points[k].Date = rows[k].Date
                 /\ points[k].Close = rows[k].Close

\* Three rows, not in chronological order, with two different closes.
C9_Witness ==
    /\ lastCall # None /\ lastCall.fetched /\ lastCall.ok
    /\ Len(lastCall.history.rows) = 3
    /\ lastCall.history.rows[1].Date.year > lastCall.history.rows[2].Date.year
    /\ lastCall.history.rows[1].Close # lastCall.history.rows[3].Close
    /\ Len(lastCall.value.points) = 3

\* C10: given an empty series, animate_prices does not raise in the axis set-up,
\* sets no axis limits, and renders the initial empty state and no reveal frame.
C10_EmptySeries ==
    (data # None /\ data.points = <<>>) =>
        /\ pc \in {"show", "exited"}
        /\ exitStatus # 1
        /\ xlim = None /\ ylim = None
        /\ line = <<>> /\ marker = <<>> /\ label = <<>>
        /\ \A k \in 1..Len(rendered) : rendered[k] = -1
        /\ anim = "done" => rendered = <<-1>>

\* The animation of an empty series, finished.
C10_Witness ==
    /\ data # None /\ data.points = <<>>
    /\ anim = "done" /\ rendered = <<-1>> /\ xlim = None /\ ylim = None
====
